---- MODULE Spec2Model ----
(***************************************************************************)
(* Model of lightning/src/offers/offer.rs: the OfferBuilder, its           *)
(* finalization into an immutable Offer, the Offer accessors and the TLV   *)
(* stream written for an OfferContents.                                    *)
(*                                                                         *)
(* Every value that reaches the wire is a sequence of bytes (0..255).  A   *)
(* u64 is its 8 big-endian bytes, so that the full 64-bit range and the    *)
(* HighZeroBytesDroppedBigSize encoding are modelled without exceeding the *)
(* integer range of the model checker.                                     *)
(***************************************************************************)
EXTENDS Integers, Sequences, FiniteSets, TLC

\* Longest sequence of setter calls made on one builder before build().
MaxCalls == 3

(***************************************************************************)
(* Option<T>                                                               *)
(***************************************************************************)
None == <<>>
Some(x) == <<x>>
IsSome(o) == Len(o) = 1
IsNone(o) == Len(o) = 0
Unwrap(o) == o[1]

(***************************************************************************)
(* u64 as 8 big-endian bytes                                               *)
(***************************************************************************)
\* n is a natural number below 2^31
ToU64(n) ==
    << 0, 0, 0, 0, (n \div 16777216) % 256, (n \div 65536) % 256,
       (n \div 256) % 256, n % 256 >>

RECURSIVE MulFrom(_, _, _, _)
MulFrom(a, k, i, carry) ==
    IF i = 0 THEN <<>>
    ELSE LET p == a[i] * k + carry
         IN  Append(MulFrom(a, k, i - 1, p \div 256), p % 256)

\* a * k modulo 2^64, for a small factor k
U64Mul(a, k) == MulFrom(a, k, 8, 0)

RECURSIVE AddFrom(_, _, _)
AddFrom(a, i, carry) ==
    IF i = 0 THEN <<>>
    ELSE LET s == a[i] + carry
         IN  Append(AddFrom(a, i - 1, s \div 256), s % 256)

\* a + k modulo 2^64, for a small addend k
U64Add(a, k) == AddFrom(a, 8, k)

U64Gt(a, b) ==
    \E i \in 1..8 : a[i] > b[i] /\ \A j \in 1..(i - 1) : a[j] = b[j]

U64_MAX == << 255, 255, 255, 255, 255, 255, 255, 255 >>

\* crate::ln::msgs::MAX_VALUE_MSAT, the maximum payable value:
\* 2,100,000,000,000,000 = 21,000,000 * 100,000,000
MAX_VALUE_MSAT == U64Mul(U64Mul(ToU64(21000000), 10000), 10000)

(***************************************************************************)
(* Collaborator value types, each given by its canonical encoding          *)
(***************************************************************************)
Networks == { "Bitcoin", "Testnet", "Signet" }

\* ChainHash::using_genesis_block(network): leading bytes of the genesis hash
using_genesis_block(network) ==
    CASE network = "Bitcoin" -> << 111, 226 >>
      [] network = "Testnet" -> << 67, 73 >>
      [] network = "Signet"  -> << 246, 30 >>

\* tests::pubkey(byte), compressed encoding
pubkey(byte) == << 2, byte >>

\* OfferFeatures::empty() and OfferFeatures::unknown()
FeaturesEmpty == <<>>
FeaturesUnknown == << 128, 0 >>

\* Duration { secs, nanos }
Duration(secs, nanos) == [ secs |-> secs, nanos |-> nanos ]
as_secs(duration) == duration.secs

(***************************************************************************)
(* Amount and Quantity                                                     *)
(***************************************************************************)
Bitcoin(amount_msats) == [ kind |-> "Bitcoin", amount_msats |-> amount_msats ]
Currency(iso4217_code, amount) ==
    [ kind |-> "Currency", iso4217_code |-> iso4217_code, amount |-> amount ]

Bounded(n) == [ kind |-> "Bounded", n |-> n ]
Unbounded == [ kind |-> "Unbounded" ]

\* Quantity::one
one == Bounded(ToU64(1))

(***************************************************************************)
(* Inputs                                                                  *)
(***************************************************************************)
USD == << 85, 83, 68 >>
Foo == << 102, 111, 111 >>
Bar == << 98, 97, 114 >>
Baz == << 98, 97, 122 >>

\* results of reading the clock: Err, or Ok(elapsed)
ClockReads ==
    { None, Some(Duration(ToU64(0), 1)), Some(Duration(ToU64(5), 500000000)),
      Some(Duration(ToU64(1700000000), 0)) }
Descriptions == { Foo, <<>> }
SigningKeys == { pubkey(42), pubkey(43) }
MetadataValues == { << 42, 42 >>, << 43, 43 >> }
MsatValues == { ToU64(1000), MAX_VALUE_MSAT, U64Add(MAX_VALUE_MSAT, 1) }
CurrencyAmounts == { Currency(USD, ToU64(10)) }
FeatureValues == { FeaturesEmpty, FeaturesUnknown }
ExpiryValues ==
    { Duration(ToU64(0), 0), Duration(U64_MAX, 0), Duration(ToU64(5), 500000000) }
IssuerValues == { Bar, Baz }
PathValues == { << 40, 41, 43, 44 >>, << 40, 41, 45, 46 >> }
QuantityValues == { one, Bounded(ToU64(10)), Unbounded }

(***************************************************************************)
(* State                                                                   *)
(***************************************************************************)
VARIABLES
    offer,     \* OfferBuilder.offer, the staged OfferContents
    phase,     \* "building", "built" (Ok), "failed" (Err(())), "panicked"
    built,     \* Some(Offer) once build() returned Ok, else None
    calls,     \* history: the constructor call followed by every setter call
    observed   \* Some(clock read and result) of an is_expired() call, else None

vars == << offer, phase, built, calls, observed >>

Call(op, arg) == [ op |-> op, arg |-> arg ]

\* new() that starts from Quantity::Unbounded
new_unbounded(description, signing_pubkey) ==
    [ chains |-> None, metadata |-> None, amount |-> None,
      description |-> description, features |-> FeaturesEmpty,
      absolute_expiry |-> None, issuer |-> None, paths |-> None,
      supported_quantity |-> Unbounded, signing_pubkey |-> Some(signing_pubkey) ]

\* new() that leaves the signing key unset
new_without_key(description, signing_pubkey) ==
    [ chains |-> None, metadata |-> None, amount |-> None,
      description |-> description, features |-> FeaturesEmpty,
      absolute_expiry |-> None, issuer |-> None, paths |-> None,
      supported_quantity |-> Bounded(ToU64(1)), signing_pubkey |-> None ]

\* OfferBuilder::new
new(description, signing_pubkey) ==
    [ chains |-> None, metadata |-> None, amount |-> None,
      description |-> description, features |-> FeaturesEmpty,
      absolute_expiry |-> None, issuer |-> None, paths |-> None,
      supported_quantity |-> one, signing_pubkey |-> Some(signing_pubkey) ]

\* the (description, signing_pubkey) pairs given to the constructor
ConstructorArgs == { << Foo, pubkey(42) >>, << <<>>, pubkey(43) >> }

Init ==
    \E description \in Descriptions, signing_pubkey \in SigningKeys :
        /\ << description, signing_pubkey >> \in ConstructorArgs
        /\ offer = new(description, signing_pubkey)
        /\ phase = "building"
        /\ built = None
        /\ calls = << Call("new", << description, signing_pubkey >>) >>
        /\ observed = None

\* The builder is owned and not yet consumed, and the call budget is not spent.
CanCall == phase = "building" /\ Len(calls) <= MaxCalls

Contains(seq, x) == \E i \in 1..Len(seq) : seq[i] = x

\* Option::get_or_insert_with(Vec::new)
get_or_insert_with_new(opt) == IF IsSome(opt) THEN Unwrap(opt) ELSE <<>>

(***************************************************************************)
(* OfferBuilder setters, as functions of the staged contents               *)
(***************************************************************************)
\* chain() without the contains() test
chain_always_push(self, network) ==
    [ self EXCEPT !.chains =
        Some(Append(get_or_insert_with_new(self.chains), using_genesis_block(network))) ]

\* chain() with the contains() test inverted
chain_inverted_test(self, network) ==
    LET chains == get_or_insert_with_new(self.chains)
        hash == using_genesis_block(network)
    IN  [ self EXCEPT !.chains =
            Some(IF Contains(chains, hash) THEN Append(chains, hash) ELSE chains) ]

chain(self, network) ==
    LET chains == get_or_insert_with_new(self.chains)
        hash == using_genesis_block(network)
    IN  [ self EXCEPT !.chains =
            Some(IF ~Contains(chains, hash) THEN Append(chains, hash) ELSE chains) ]

\* metadata() that keeps a value already set
metadata_keep_first(self, bytes) ==
    IF IsSome(self.metadata) THEN self ELSE [ self EXCEPT !.metadata = Some(bytes) ]

\* metadata() that also resets the issuer
metadata_resets_issuer(self, bytes) ==
    [ self EXCEPT !.metadata = Some(bytes), !.issuer = None ]

metadata(self, bytes) == [ self EXCEPT !.metadata = Some(bytes) ]

amount(self, value) == [ self EXCEPT !.amount = Some(value) ]

amount_msats(self, msats) == amount(self, Bitcoin(msats))

features(self, bitset) == [ self EXCEPT !.features = bitset ]

absolute_expiry(self, duration) == [ self EXCEPT !.absolute_expiry = Some(duration) ]

\* issuer() that writes the description as well
issuer_writes_description(self, text) ==
    [ self EXCEPT !.issuer = Some(text), !.description = text ]

issuer(self, text) == [ self EXCEPT !.issuer = Some(text) ]

\* path() that skips a path already in the list
path_dedup(self, blinded_path) ==
    LET paths == get_or_insert_with_new(self.paths)
    IN  [ self EXCEPT !.paths =
            Some(IF Contains(paths, blinded_path) THEN paths ELSE Append(paths, blinded_path)) ]

path(self, blinded_path) ==
    [ self EXCEPT !.paths = Some(Append(get_or_insert_with_new(self.paths), blinded_path)) ]

supported_quantity(self, quantity) == [ self EXCEPT !.supported_quantity = quantity ]

(***************************************************************************)
(* TLV stream of an OfferContents                                          *)
(***************************************************************************)
\* to_tlv_record() without the n == 1 case
to_tlv_record_no_default(quantity) ==
    IF quantity.kind = "Bounded" THEN Some(quantity.n) ELSE Some(ToU64(0))

\* Quantity::to_tlv_record
to_tlv_record(quantity) ==
    IF quantity.kind = "Bounded"
    THEN IF quantity.n = ToU64(1) THEN None ELSE Some(quantity.n)
    ELSE Some(ToU64(0))

\* OfferContents::implied_chain
implied_chain == using_genesis_block("Bitcoin")

\* the (currency, amount) match without the currency code
stream_currency_amount_no_code(self) ==
    IF IsNone(self.amount) THEN << None, None >>
    ELSE IF Unwrap(self.amount).kind = "Bitcoin"
         THEN << None, Some(Unwrap(self.amount).amount_msats) >>
         ELSE << None, Some(Unwrap(self.amount).amount) >>

\* let (currency, amount) = match &self.amount { .. }
stream_currency_amount(self) ==
    IF IsNone(self.amount) THEN << None, None >>
    ELSE IF Unwrap(self.amount).kind = "Bitcoin"
         THEN << None, Some(Unwrap(self.amount).amount_msats) >>
         ELSE << Some(Unwrap(self.amount).iso4217_code),
                 Some(Unwrap(self.amount).amount) >>

\* the features binding without the test against OfferFeatures::empty()
stream_features_always(self) == Some(self.features)

\* let features = if self.features == OfferFeatures::empty() { None } else { Some(..) }
stream_features(self) ==
    IF self.features = FeaturesEmpty THEN None ELSE Some(self.features)

\* OfferContents::as_tlv_stream: the OfferTlvStreamRef of the contents
as_tlv_stream(self) ==
    LET currency_amount == stream_currency_amount(self)
        feature_bits == stream_features(self)
    IN  [ chains |-> self.chains,
          metadata |-> self.metadata,
          currency |-> currency_amount[1],
          amount |-> currency_amount[2],
          description |-> Some(self.description),
          features |-> feature_bits,
          absolute_expiry |->
              IF IsSome(self.absolute_expiry)
              THEN Some(as_secs(Unwrap(self.absolute_expiry))) ELSE None,
          paths |-> self.paths,
          issuer |-> self.issuer,
          quantity_max |-> to_tlv_record(self.supported_quantity),
          node_id |-> self.signing_pubkey ]

\* HighZeroBytesDroppedBigSize: big-endian bytes without leading zero bytes
RECURSIVE HighZeroBytesDropped(_)
HighZeroBytesDropped(bytes) ==
    IF bytes = <<>> THEN <<>>
    ELSE IF Head(bytes) = 0 THEN HighZeroBytesDropped(Tail(bytes)) ELSE bytes

\* WithoutLength for a Vec of encodable values: the encodings, concatenated
RECURSIVE WithoutLength(_)
WithoutLength(list) ==
    IF list = <<>> THEN <<>> ELSE Head(list) \o WithoutLength(Tail(list))

\* the field table with the issuer and quantity_max rows exchanged
TlvFields_rows_exchanged(stream) ==
    << [ type |-> 2,  value |-> IF IsSome(stream.chains)
                                 THEN Some(WithoutLength(Unwrap(stream.chains))) ELSE None ],
       [ type |-> 4,  value |-> stream.metadata ],
       [ type |-> 6,  value |-> stream.currency ],
       [ type |-> 8,  value |-> IF IsSome(stream.amount)
                                 THEN Some(HighZeroBytesDropped(Unwrap(stream.amount)))
                                 ELSE None ],
       [ type |-> 10, value |-> stream.description ],
       [ type |-> 12, value |-> stream.features ],
       [ type |-> 14, value |-> IF IsSome(stream.absolute_expiry)
                                 THEN Some(HighZeroBytesDropped(Unwrap(stream.absolute_expiry)))
                                 ELSE None ],
       [ type |-> 16, value |-> IF IsSome(stream.paths)
                                 THEN Some(WithoutLength(Unwrap(stream.paths))) ELSE None ],
       [ type |-> 20, value |-> IF IsSome(stream.quantity_max)
                                 THEN Some(HighZeroBytesDropped(Unwrap(stream.quantity_max)))
                                 ELSE None ],
       [ type |-> 18, value |-> stream.issuer ],
       [ type |-> 22, value |-> stream.node_id ] >>

\* The tlv_stream! field table: type number and encoded value per field
TlvFields(stream) ==
    << [ type |-> 2,  value |-> IF IsSome(stream.chains)
                                 THEN Some(WithoutLength(Unwrap(stream.chains))) ELSE None ],
       [ type |-> 4,  value |-> stream.metadata ],
       [ type |-> 6,  value |-> stream.currency ],
       [ type |-> 8,  value |-> IF IsSome(stream.amount)
                                 THEN Some(HighZeroBytesDropped(Unwrap(stream.amount)))
                                 ELSE None ],
       [ type |-> 10, value |-> stream.description ],
       [ type |-> 12, value |-> stream.features ],
       [ type |-> 14, value |-> IF IsSome(stream.absolute_expiry)
                                 THEN Some(HighZeroBytesDropped(Unwrap(stream.absolute_expiry)))
                                 ELSE None ],
       [ type |-> 16, value |-> IF IsSome(stream.paths)
                                 THEN Some(WithoutLength(Unwrap(stream.paths))) ELSE None ],
       [ type |-> 18, value |-> stream.issuer ],
       [ type |-> 20, value |-> IF IsSome(stream.quantity_max)
                                 THEN Some(HighZeroBytesDropped(Unwrap(stream.quantity_max)))
                                 ELSE None ],
       [ type |-> 22, value |-> stream.node_id ] >>

\* One record per present field, in table order: (type, length, value)
EncodeRecords(fields) ==
    LET present == SelectSeq(fields, LAMBDA f : IsSome(f.value))
    IN  [ i \in 1..Len(present) |->
            [ type |-> present[i].type, length |-> Len(Unwrap(present[i].value)),
              value |-> Unwrap(present[i].value) ] ]

\* OfferTlvStreamRef::write
TlvWrite(stream) == EncodeRecords(TlvFields(stream))

\* Writeable for OfferContents
write(self) == TlvWrite(as_tlv_stream(self))

(***************************************************************************)
(* OfferBuilder::build                                                     *)
(***************************************************************************)
\* the amount match with >= in place of >
validate_amount_ge(self) ==
    IF IsNone(self.amount) THEN "ok"
    ELSE IF Unwrap(self.amount).kind = "Bitcoin"
         THEN IF Unwrap(self.amount).amount_msats = MAX_VALUE_MSAT
                 \/ U64Gt(Unwrap(self.amount).amount_msats, MAX_VALUE_MSAT)
              THEN "err" ELSE "ok"
         ELSE "panic"

\* The match on self.offer.amount: "ok", "err" (return Err(())) or "panic"
\* (the unreachable!() arm)
validate_amount(self) ==
    IF IsNone(self.amount) THEN "ok"
    ELSE IF Unwrap(self.amount).kind = "Bitcoin"
         THEN IF U64Gt(Unwrap(self.amount).amount_msats, MAX_VALUE_MSAT)
              THEN "err" ELSE "ok"
         ELSE "panic"

\* build() that leaves the chains as staged
canonicalize_chains_skipped(self) == self

\* build() that tests chains[0] only, without chains.len() == 1
canonicalize_chains_first_only(self) ==
    IF IsSome(self.chains) /\ Unwrap(self.chains)[1] = using_genesis_block("Bitcoin")
    THEN [ self EXCEPT !.chains = None ]
    ELSE self

\* if chains.len() == 1 && chains[0] == implied_chain() { chains = None }
canonicalize_chains(self) ==
    IF /\ IsSome(self.chains)
       /\ Len(Unwrap(self.chains)) = 1
       /\ Unwrap(self.chains)[1] = implied_chain
    THEN [ self EXCEPT !.chains = None ]
    ELSE self

\* build() that writes the bytes before it canonicalizes the chains
finalize_write_first(self) ==
    [ bytes |-> write(self), contents |-> canonicalize_chains(self) ]

\* build() that drops the paths together with the canonical chains
finalize_drops_paths(self) ==
    LET contents == [ canonicalize_chains(self) EXCEPT !.paths = None ]
    IN  [ bytes |-> write(contents), contents |-> contents ]

\* Ok(Offer { bytes, contents })
finalize(self) ==
    LET contents == canonicalize_chains(self)
    IN  [ bytes |-> write(contents), contents |-> contents ]

(***************************************************************************)
(* Offer accessors                                                         *)
(***************************************************************************)
Offer_chains(o) ==
    IF IsSome(o.contents.chains) THEN Unwrap(o.contents.chains) ELSE << implied_chain >>
Offer_metadata(o) == o.contents.metadata
Offer_amount(o) == o.contents.amount
Offer_description(o) == o.contents.description
Offer_features(o) == o.contents.features
Offer_absolute_expiry(o) == o.contents.absolute_expiry
\* elapsed > seconds_from_epoch on Duration values
DurationGt(a, b) == U64Gt(a.secs, b.secs) \/ (a.secs = b.secs /\ a.nanos > b.nanos)

\* is_expired() with >= in place of >
Offer_is_expired_ge(o, elapsed) ==
    IF IsSome(o.contents.absolute_expiry)
    THEN IF IsSome(elapsed)
         THEN ~DurationGt(Unwrap(o.contents.absolute_expiry), Unwrap(elapsed))
         ELSE FALSE
    ELSE FALSE

\* Offer::is_expired, given the result of SystemTime::UNIX_EPOCH.elapsed()
\* (None for Err)
Offer_is_expired(o, elapsed) ==
    IF IsSome(Offer_absolute_expiry(o))
    THEN IF IsSome(elapsed) THEN DurationGt(Unwrap(elapsed), Unwrap(Offer_absolute_expiry(o)))
         ELSE FALSE
    ELSE FALSE
Offer_issuer(o) == o.contents.issuer
Offer_paths(o) == IF IsSome(o.contents.paths) THEN Unwrap(o.contents.paths) ELSE <<>>
Offer_supported_quantity(o) == o.contents.supported_quantity
Offer_signing_pubkey(o) == Unwrap(o.contents.signing_pubkey)
Offer_as_tlv_stream(o) == as_tlv_stream(o.contents)

(***************************************************************************)
(* Actions: one per builder call                                           *)
(***************************************************************************)
Setter(op, arg, next) ==
    /\ CanCall
    /\ offer' = next
    /\ calls' = Append(calls, Call(op, arg))
    /\ UNCHANGED << phase, built, observed >>

Chain == \E network \in Networks : Setter("chain", network, chain(offer, network))

Metadata == \E bytes \in MetadataValues : Setter("metadata", bytes, metadata(offer, bytes))

AmountMsats ==
    \E msats \in MsatValues : Setter("amount", Bitcoin(msats), amount_msats(offer, msats))

\* the private setter, called with a Currency amount by the tests
Amount == \E value \in CurrencyAmounts : Setter("amount", value, amount(offer, value))

Features == \E bitset \in FeatureValues : Setter("features", bitset, features(offer, bitset))

AbsoluteExpiry ==
    \E duration \in ExpiryValues :
        Setter("absolute_expiry", duration, absolute_expiry(offer, duration))

Issuer == \E text \in IssuerValues : Setter("issuer", text, issuer(offer, text))

Path == \E blinded_path \in PathValues : Setter("path", blinded_path, path(offer, blinded_path))

SupportedQuantity ==
    \E quantity \in QuantityValues :
        Setter("supported_quantity", quantity, supported_quantity(offer, quantity))

\* build() consumes the builder: Ok(Offer), Err(()) or a panic
Build ==
    /\ phase = "building"
    /\ LET outcome == validate_amount(offer)
       IN  /\ phase' = CASE outcome = "ok" -> "built"
                         [] outcome = "err" -> "failed"
                         [] outcome = "panic" -> "panicked"
           /\ built' = IF outcome = "ok" THEN Some(finalize(offer)) ELSE None
    /\ UNCHANGED << offer, calls, observed >>

\* Offer::is_expired(&self) on the finalized Offer, with one read of the clock
IsExpired ==
    /\ phase = "built"
    /\ observed = None
    /\ \E elapsed \in ClockReads :
          observed' = Some([ elapsed |-> elapsed,
                             expired |-> Offer_is_expired(Unwrap(built), elapsed) ])
    /\ UNCHANGED << offer, phase, built, calls >>

Next ==
    \/ Chain
    \/ Metadata
    \/ AmountMsats
    \/ Amount
    \/ Features
    \/ AbsoluteExpiry
    \/ Issuer
    \/ Path
    \/ SupportedQuantity
    \/ Build
    \/ IsExpired

Spec == Init /\ [][Next]_vars

(***************************************************************************)
(* History of the calls made on the builder                                *)
(***************************************************************************)
ArgsOf(op) ==
    LET sel == SelectSeq(calls, LAMBDA c : c.op = op)
    IN  [ i \in 1..Len(sel) |-> sel[i].arg ]

NeverCalled(op) == Len(ArgsOf(op)) = 0

LastArg(op) ==
    LET args == ArgsOf(op)
    IN  IF Len(args) = 0 THEN None ELSE Some(args[Len(args)])

\* the elements of s without the repetitions of an earlier element
RECURSIVE FirstOccurrences(_, _)
FirstOccurrences(s, i) ==
    IF i > Len(s) THEN <<>>
    ELSE (IF \E j \in 1..(i - 1) : s[j] = s[i] THEN <<>> ELSE << s[i] >>)
         \o FirstOccurrences(s, i + 1)

\* the records of one type in a wire form
RecordsOfType(bytes, type) == SelectSeq(bytes, LAMBDA r : r.type = type)

\* the wire form holds exactly one record of the type, with this value
HasRecord(bytes, type, value) ==
    RecordsOfType(bytes, type) = << [ type |-> type, length |-> Len(value), value |-> value ] >>

\* the wire form holds no record of the type
NoRecord(bytes, type) == Len(RecordsOfType(bytes, type)) = 0

Built == phase = "built" /\ IsSome(built)
TheOffer == Unwrap(built)
Mainnet == using_genesis_block("Bitcoin")
Testnet == using_genesis_block("Testnet")

StagedBitcoin == IsSome(offer.amount) /\ Unwrap(offer.amount).kind = "Bitcoin"
StagedCurrency == IsSome(offer.amount) /\ Unwrap(offer.amount).kind = "Currency"

(***************************************************************************)
(* Claims                                                                  *)
(***************************************************************************)

\* C1: build() of a builder whose amount is Bitcoin{amount_msats} returns Ok
\* when amount_msats <= MAX_VALUE_MSAT (MAX_VALUE_MSAT itself included) and
\* Err(()) when amount_msats > MAX_VALUE_MSAT (MAX_VALUE_MSAT + 1 included);
\* every finalized Offer with a Bitcoin amount has amount_msats <= MAX_VALUE_MSAT.
C1_AmountBound ==
    /\ (phase # "building" /\ StagedBitcoin) =>
          LET msats == Unwrap(offer.amount).amount_msats
          IN  /\ ~U64Gt(msats, MAX_VALUE_MSAT) => Built
              /\ U64Gt(msats, MAX_VALUE_MSAT) => (phase = "failed" /\ IsNone(built))
              /\ msats = MAX_VALUE_MSAT => Built
              /\ msats = U64Add(MAX_VALUE_MSAT, 1) => phase = "failed"
    /\ (Built /\ IsSome(Offer_amount(TheOffer))
              /\ Unwrap(Offer_amount(TheOffer)).kind = "Bitcoin") =>
          ~U64Gt(Unwrap(Offer_amount(TheOffer)).amount_msats, MAX_VALUE_MSAT)

C1_Witness ==
    /\ Built
    /\ Offer_amount(TheOffer) = Some(Bitcoin(MAX_VALUE_MSAT))
    /\ MAX_VALUE_MSAT = << 0, 7, 117, 240, 90, 7, 64, 0 >>

\* C2: from every builder state reachable by setters (the amount setter with a
\* Currency value included), build() returns either an Offer or the validation
\* error, the error only for a Bitcoin amount above MAX_VALUE_MSAT; with a
\* Currency amount build() returns an Offer.
C2_BuildTotal ==
    /\ phase \in { "building", "built", "failed" }
    /\ phase = "failed" =>
          (StagedBitcoin /\ U64Gt(Unwrap(offer.amount).amount_msats, MAX_VALUE_MSAT))
    /\ (phase # "building" /\ StagedCurrency) => Built

\* C3: a finalized Offer never stores chains == Some([mainnet]); a builder
\* whose chain list is exactly [mainnet] at build() is finalized with chains
\* None, chains() still returns [mainnet] and the wire form has no chains record.
C3_CanonicalChainOmitted ==
    Built =>
        /\ TheOffer.contents.chains # Some(<< Mainnet >>)
        /\ offer.chains = Some(<< Mainnet >>) =>
              /\ TheOffer.contents.chains = None
              /\ Offer_chains(TheOffer) = << Mainnet >>
              /\ Offer_as_tlv_stream(TheOffer).chains = None
              /\ NoRecord(TheOffer.bytes, 2)

C3_Witness ==
    /\ Built
    /\ offer.chains = Some(<< Mainnet >>)
    /\ Len(ArgsOf("chain")) >= 2
    /\ Offer_chains(TheOffer) = << Mainnet >>

\* C4: build() drops the chain list only when it is exactly [mainnet]; any
\* other staged list is kept unchanged, chains() returns it and the wire form
\* has one chains record holding that list in the same order.
C4_OtherChainsRetained ==
    Built =>
        /\ (IsSome(offer.chains) /\ IsNone(TheOffer.contents.chains)) =>
              offer.chains = Some(<< Mainnet >>)
        /\ (IsSome(offer.chains) /\ offer.chains # Some(<< Mainnet >>)) =>
              /\ TheOffer.contents.chains = offer.chains
              /\ Offer_chains(TheOffer) = Unwrap(offer.chains)
              /\ Offer_as_tlv_stream(TheOffer).chains = offer.chains
              /\ HasRecord(TheOffer.bytes, 2, WithoutLength(Unwrap(offer.chains)))

C4_Witness ==
    /\ Built
    /\ offer.chains = Some(<< Mainnet, Testnet >>)
    /\ Offer_chains(TheOffer) = << Mainnet, Testnet >>
    /\ HasRecord(TheOffer.bytes, 2, << 111, 226, 67, 73 >>)

\* C5: after any sequence of chain(network) calls the builder's chain list
\* holds the chain hash of each distinct network once, in the order of the
\* first call that named it (None when chain() was never called).
C5_ChainsDedupInOrder ==
    LET networks == ArgsOf("chain")
        hashes == [ i \in 1..Len(networks) |-> using_genesis_block(networks[i]) ]
    IN  /\ NeverCalled("chain") => offer.chains = None
        /\ ~NeverCalled("chain") =>
              /\ offer.chains = Some(FirstOccurrences(hashes, 1))
              /\ \A n \in Networks :
                    Contains(networks, n) =>
                        Cardinality({ i \in 1..Len(Unwrap(offer.chains)) :
                            Unwrap(offer.chains)[i] = using_genesis_block(n) }) = 1

C5_Witness ==
    /\ ArgsOf("chain") = << "Bitcoin", "Testnet", "Bitcoin" >>
    /\ offer.chains = Some(<< Mainnet, Testnet >>)

\* the accessor value, the stream field and the wire record expected after the
\* calls to the setter of an Option field: those of the last argument, or
\* nothing without a call
LastWins(last, accessor, streamField, streamValue, type, encoded) ==
    /\ accessor = last
    /\ IF IsNone(last)
       THEN streamField = None /\ NoRecord(TheOffer.bytes, type)
       ELSE streamField = Some(streamValue) /\ HasRecord(TheOffer.bytes, type, encoded)

\* C6: last write wins for metadata, amount, absolute_expiry, issuer and
\* supported_quantity: the finalized Offer's accessor returns the argument of
\* the last call to the field's setter (None, or Bounded(1), without a call),
\* and the field's wire record is the one of that last value, with no record
\* of an earlier value.
C6_LastWriteWins ==
    Built =>
        LET stream == Offer_as_tlv_stream(TheOffer)
            metadata_calls == LastArg("metadata")
            amount_calls == LastArg("amount")
            expiry_calls == LastArg("absolute_expiry")
            issuer_calls == LastArg("issuer")
            quantity_calls == LastArg("supported_quantity")
            last_metadata == Unwrap(metadata_calls)
            last_amount == Unwrap(amount_calls)
            last_units ==
                IF last_amount.kind = "Bitcoin" THEN last_amount.amount_msats
                ELSE last_amount.amount
            last_expiry == Unwrap(expiry_calls)
            last_issuer == Unwrap(issuer_calls)
            last_quantity ==
                IF IsNone(quantity_calls) THEN Bounded(ToU64(1))
                ELSE Unwrap(quantity_calls)
        IN  /\ LastWins(metadata_calls, Offer_metadata(TheOffer), stream.metadata,
                        last_metadata, 4, last_metadata)
            /\ LastWins(amount_calls, Offer_amount(TheOffer), stream.amount,
                        last_units, 8, HighZeroBytesDropped(last_units))
            /\ LastWins(expiry_calls, Offer_absolute_expiry(TheOffer),
                        stream.absolute_expiry, last_expiry.secs, 14,
                        HighZeroBytesDropped(last_expiry.secs))
            /\ LastWins(issuer_calls, Offer_issuer(TheOffer), stream.issuer,
                        last_issuer, 18, last_issuer)
            /\ Offer_supported_quantity(TheOffer) = last_quantity
            /\ stream.quantity_max =
                  CASE last_quantity = Bounded(ToU64(1)) -> None
                    [] last_quantity = Unbounded -> Some(ToU64(0))
                    [] OTHER -> Some(last_quantity.n)
            /\ IF IsSome(stream.quantity_max)
               THEN HasRecord(TheOffer.bytes, 20,
                              HighZeroBytesDropped(Unwrap(stream.quantity_max)))
               ELSE NoRecord(TheOffer.bytes, 20)

C6_Witness ==
    /\ Built
    /\ ArgsOf("metadata") = << << 42, 42 >>, << 43, 43 >> >>
    /\ Offer_metadata(TheOffer) = Some(<< 43, 43 >>)
    /\ HasRecord(TheOffer.bytes, 4, << 43, 43 >>)

\* C7: on the wire Bounded(1) has no quantity_max record, Unbounded has a
\* quantity_max record of value 0 and Bounded(n), n > 1, one of value n;
\* Bounded(1) set after another quantity is omitted again; supported_quantity()
\* returns the quantity as last set.
C7_QuantityCanonical ==
    Built =>
        LET quantity == Offer_supported_quantity(TheOffer)
            stream == Offer_as_tlv_stream(TheOffer)
        IN  /\ ~NeverCalled("supported_quantity") =>
                  quantity = Unwrap(LastArg("supported_quantity"))
            /\ quantity = Bounded(ToU64(1)) =>
                  stream.quantity_max = None /\ NoRecord(TheOffer.bytes, 20)
            /\ quantity = Unbounded =>
                  /\ stream.quantity_max = Some(ToU64(0))
                  /\ HasRecord(TheOffer.bytes, 20, <<>>)
            /\ (quantity.kind = "Bounded" /\ U64Gt(quantity.n, ToU64(1))) =>
                  /\ stream.quantity_max = Some(quantity.n)
                  /\ HasRecord(TheOffer.bytes, 20, HighZeroBytesDropped(quantity.n))
            /\ quantity = Bounded(ToU64(10)) => HasRecord(TheOffer.bytes, 20, << 10 >>)

C7_Witness ==
    /\ Built
    /\ ArgsOf("supported_quantity") = << Bounded(ToU64(10)), Bounded(ToU64(1)) >>
    /\ Offer_supported_quantity(TheOffer) = Bounded(ToU64(1))
    /\ NoRecord(TheOffer.bytes, 20)

\* C8: path() appends without de-duplication: paths() of the finalized Offer is
\* the sequence of the path() arguments in call order, repetitions included,
\* and the paths record holds the same paths in the same order; without a
\* path() call paths() is empty and there is no paths record.
C8_PathsAppended ==
    Built =>
        LET stream == Offer_as_tlv_stream(TheOffer)
        IN  /\ Offer_paths(TheOffer) = ArgsOf("path")
            /\ Len(Offer_paths(TheOffer)) = Len(ArgsOf("path"))
            /\ IF NeverCalled("path")
               THEN stream.paths = None /\ NoRecord(TheOffer.bytes, 16)
               ELSE /\ stream.paths = Some(ArgsOf("path"))
                    /\ HasRecord(TheOffer.bytes, 16, WithoutLength(ArgsOf("path")))

C8_Witness ==
    /\ Built
    /\ ArgsOf("path") = << << 40, 41, 43, 44 >>, << 40, 41, 43, 44 >> >>
    /\ Len(Offer_paths(TheOffer)) = 2
    /\ HasRecord(TheOffer.bytes, 16, << 40, 41, 43, 44, 40, 41, 43, 44 >>)

\* C9: an Offer built right after the constructor has chains() == [mainnet],
\* metadata(), amount(), absolute_expiry() and issuer() None, features() empty,
\* is_expired() false, paths() empty, supported_quantity() == Bounded(1),
\* signing_pubkey() the constructor's key, and a wire form of exactly two
\* records: description (type 10) and signing key (type 22).
C9_Defaults ==
    (Built /\ Len(calls) = 1) =>
        LET description == calls[1].arg[1]
            key == calls[1].arg[2]
        IN  /\ Offer_chains(TheOffer) = << Mainnet >>
            /\ Offer_metadata(TheOffer) = None
            /\ Offer_amount(TheOffer) = None
            /\ Offer_description(TheOffer) = description
            /\ Offer_features(TheOffer) = FeaturesEmpty
            /\ Offer_absolute_expiry(TheOffer) = None
            /\ \A elapsed \in ClockReads : ~Offer_is_expired(TheOffer, elapsed)
            /\ Offer_paths(TheOffer) = <<>>
            /\ Offer_issuer(TheOffer) = None
            /\ Offer_supported_quantity(TheOffer) = Bounded(ToU64(1))
            /\ Offer_signing_pubkey(TheOffer) = key
            /\ TheOffer.bytes =
                  << [ type |-> 10, length |-> Len(description), value |-> description ],
                     [ type |-> 22, length |-> Len(key), value |-> key ] >>

C9_Witness ==
    /\ Built
    /\ calls = << Call("new", << Foo, pubkey(42) >>) >>
    /\ Len(TheOffer.bytes) = 2

\* C10: the bytes stored in a finalized Offer are the TLV encoding of its
\* contents as they are after the chains canonicalization: re-encoding
\* offer.contents reproduces offer.bytes, also when build() dropped the chains.
C10_BytesMatchContents ==
    Built =>
        /\ TheOffer.bytes = write(TheOffer.contents)
        /\ TheOffer.contents.chains # offer.chains =>
              /\ TheOffer.bytes # write(offer)
              /\ NoRecord(TheOffer.bytes, 2)

C10_Witness ==
    /\ Built
    /\ TheOffer.contents.chains # offer.chains
    /\ TheOffer.bytes = write(TheOffer.contents)
    /\ TheOffer.bytes # write(offer)

\* C11: the currency record (type 6) is on the wire exactly when the amount is
\* the Currency variant, next to an amount record with the currency amount; a
\* Bitcoin amount gives the amount record (amount_msats) alone and no amount
\* gives neither record; amount_msats() after a Currency amount replaces it,
\* leaving the Bitcoin amount and no currency record.
C11_CurrencyRecord ==
    LET stream == as_tlv_stream(offer)
    IN  /\ IsSome(stream.currency) <=> StagedCurrency
        /\ StagedCurrency =>
              /\ stream.currency = Some(Unwrap(offer.amount).iso4217_code)
              /\ stream.amount = Some(Unwrap(offer.amount).amount)
              /\ HasRecord(write(offer), 6, Unwrap(offer.amount).iso4217_code)
              /\ HasRecord(write(offer), 8,
                           HighZeroBytesDropped(Unwrap(offer.amount).amount))
        /\ StagedBitcoin => stream.amount = Some(Unwrap(offer.amount).amount_msats)
        /\ IsNone(offer.amount) => stream.amount = None
        /\ (~NeverCalled("amount") /\ Unwrap(LastArg("amount")).kind = "Bitcoin") =>
              offer.amount = LastArg("amount")
        /\ Built =>
              /\ ~StagedCurrency
              /\ NoRecord(TheOffer.bytes, 6)
              /\ StagedBitcoin =>
                    HasRecord(TheOffer.bytes, 8,
                              HighZeroBytesDropped(Unwrap(offer.amount).amount_msats))
              /\ IsNone(offer.amount) => NoRecord(TheOffer.bytes, 8)

C11_Witness ==
    /\ Built
    /\ ArgsOf("amount") = << Currency(USD, ToU64(10)), Bitcoin(ToU64(1000)) >>
    /\ NoRecord(TheOffer.bytes, 6)
    /\ HasRecord(TheOffer.bytes, 8, << 3, 232 >>)

\* the types of the records of a wire form ascend strictly
Ascending(wire) == \A i \in 1..(Len(wire) - 1) : wire[i].type < wire[i + 1].type

\* the type numbers of the fields of the contents whose value is present, in
\* ascending order
PresentTypes(contents) ==
    (IF IsSome(contents.chains) THEN << 2 >> ELSE <<>>)
    \o (IF IsSome(contents.metadata) THEN << 4 >> ELSE <<>>)
    \o (IF IsSome(contents.amount) /\ Unwrap(contents.amount).kind = "Currency"
        THEN << 6 >> ELSE <<>>)
    \o (IF IsSome(contents.amount) THEN << 8 >> ELSE <<>>)
    \o << 10 >>
    \o (IF contents.features # FeaturesEmpty THEN << 12 >> ELSE <<>>)
    \o (IF IsSome(contents.absolute_expiry) THEN << 14 >> ELSE <<>>)
    \o (IF IsSome(contents.paths) THEN << 16 >> ELSE <<>>)
    \o (IF IsSome(contents.issuer) THEN << 18 >> ELSE <<>>)
    \o (IF contents.supported_quantity # Bounded(ToU64(1)) THEN << 20 >> ELSE <<>>)
    \o (IF IsSome(contents.signing_pubkey) THEN << 22 >> ELSE <<>>)

WireTypes(wire) == [ i \in 1..Len(wire) |-> wire[i].type ]

\* the records of the wire form of the contents: ascending types, one record
\* per present field and none for an absent one, each under its type number
WireOrdered(wire, contents) ==
    /\ Ascending(wire)
    /\ WireTypes(wire) = PresentTypes(contents)
    /\ IsSome(contents.metadata) => HasRecord(wire, 4, Unwrap(contents.metadata))
    /\ HasRecord(wire, 10, contents.description)
    /\ contents.features # FeaturesEmpty => HasRecord(wire, 12, contents.features)
    /\ IsSome(contents.issuer) => HasRecord(wire, 18, Unwrap(contents.issuer))
    /\ HasRecord(wire, 22, Unwrap(contents.signing_pubkey))

\* C12: the wire form is a sequence of records in strictly ascending type
\* order, each type at most once, with the type numbers chains 2, metadata 4,
\* currency 6, amount 8, description 10, features 12, absolute_expiry 14,
\* paths 16, issuer 18, quantity_max 20, signing key 22, whatever the order of
\* the setter calls; an absent field has no record.  Stated of the bytes of
\* every finalized Offer, and of the encoding of the staged contents whenever
\* they hold a Currency amount (which no finalized Offer does).
C12_AscendingTypes ==
    /\ Built => WireOrdered(TheOffer.bytes, TheOffer.contents)
    /\ StagedCurrency => WireOrdered(write(offer), offer)

C12_Witness ==
    /\ Built
    /\ Len(calls) = 4
    /\ calls[2].op = "supported_quantity"
    /\ calls[3].op = "issuer"
    /\ calls[4].op = "metadata"
    /\ [ i \in 1..Len(TheOffer.bytes) |-> TheOffer.bytes[i].type ] = << 4, 10, 18, 20, 22 >>

\* C13: features() overrides the prior value, and the features record is
\* emitted exactly when the final bitset differs from the empty one: non-empty
\* features give a record with that value; non-empty and then empty features
\* give features() empty and no features record.
C13_FeaturesRecord ==
    Built =>
        LET bitset == Offer_features(TheOffer)
            stream == Offer_as_tlv_stream(TheOffer)
        IN  /\ bitset = IF NeverCalled("features") THEN FeaturesEmpty
                        ELSE Unwrap(LastArg("features"))
            /\ IF bitset = FeaturesEmpty
               THEN stream.features = None /\ NoRecord(TheOffer.bytes, 12)
               ELSE stream.features = Some(bitset) /\ HasRecord(TheOffer.bytes, 12, bitset)

C13_Witness ==
    /\ Built
    /\ ArgsOf("features") = << FeaturesUnknown, FeaturesEmpty >>
    /\ Offer_features(TheOffer) = FeaturesEmpty
    /\ NoRecord(TheOffer.bytes, 12)

\* C14: is_expired() returns false without an absolute_expiry or when the clock
\* read fails, and otherwise true exactly when the elapsed time strictly
\* exceeds the expiry (equal is not expired); it leaves the Offer unchanged.
\* An expiry of 0 is expired at any positive time, one of u64::MAX seconds is not.
C14_IsExpired ==
    [][ observed' # observed =>
          LET elapsed == Unwrap(observed').elapsed
              expired == Unwrap(observed').expired
              expiry == Offer_absolute_expiry(TheOffer)
          IN  /\ built' = built /\ offer' = offer /\ phase' = phase
              /\ expired \in BOOLEAN
              /\ (IsNone(expiry) \/ IsNone(elapsed)) => ~expired
              /\ (IsSome(expiry) /\ IsSome(elapsed)) =>
                    /\ expired <=> DurationGt(Unwrap(elapsed), Unwrap(expiry))
                    /\ Unwrap(elapsed) = Unwrap(expiry) => ~expired
                    /\ (Unwrap(expiry) = Duration(ToU64(0), 0)
                          /\ Unwrap(elapsed) # Duration(ToU64(0), 0)) => expired
                    /\ Unwrap(expiry) = Duration(U64_MAX, 0) => ~expired
      ]_vars

C14_Witness ==
    /\ IsSome(observed)
    /\ Built
    /\ Offer_absolute_expiry(TheOffer) = Some(Duration(ToU64(5), 500000000))
    /\ Unwrap(observed).elapsed = Some(Duration(ToU64(5), 500000000))
    /\ Unwrap(observed).expired = FALSE

\* C15: every Offer produced by build(), after any sequence of setters, stores
\* the signing key given to the constructor, so signing_pubkey() never meets
\* an absent key, and its wire form has the signing-key record with that key.
C15_SigningKeyPresent ==
    LET key == calls[1].arg[2]
    IN  /\ offer.signing_pubkey = Some(key)
        /\ Built =>
              /\ IsSome(TheOffer.contents.signing_pubkey)
              /\ Offer_signing_pubkey(TheOffer) = key
              /\ Offer_as_tlv_stream(TheOffer).node_id = Some(key)
              /\ HasRecord(TheOffer.bytes, 22, key)

C15_Witness ==
    /\ Built
    /\ Len(calls) = MaxCalls + 1
    /\ calls[1].arg[2] = pubkey(43)
    /\ Offer_signing_pubkey(TheOffer) = pubkey(43)
    /\ HasRecord(TheOffer.bytes, 22, << 2, 43 >>)

\* the field of the staged contents that a setter writes
FieldOf(op) ==
    CASE op = "chain" -> "chains"
      [] op = "path" -> "paths"
      [] OTHER -> op

\* C17: each builder setter changes only its own field of the staged contents
\* and leaves every other field unchanged; no setter changes the description
\* or the signing key given to the constructor.
C17_SetterFrame ==
    [][ calls' # calls =>
          LET op == calls'[Len(calls')].op
          IN  /\ \A f \in (DOMAIN offer) \ { FieldOf(op) } : offer'[f] = offer[f]
              /\ DOMAIN offer' = DOMAIN offer
              /\ offer'.description = calls[1].arg[1]
              /\ offer'.signing_pubkey = Some(calls[1].arg[2])
              /\ built' = built /\ phase' = phase
      ]_vars

C17_Witness ==
    /\ phase = "building"
    /\ Len(calls) = 4
    /\ calls[2].op = "metadata" /\ calls[3].op = "issuer" /\ calls[4].op = "path"
    /\ offer.metadata = Some(calls[2].arg)
    /\ offer.issuer = Some(calls[3].arg)
    /\ offer.description = Foo

\* C18: a successful build() changes no staged field other than chains, and
\* chains only from the singleton [mainnet] to None; for every other field the
\* finalized Offer's accessor returns the value staged when build() was called.
C18_BuildFrame ==
    Built =>
        /\ \A f \in (DOMAIN offer) \ { "chains" } : TheOffer.contents[f] = offer[f]
        /\ DOMAIN TheOffer.contents = DOMAIN offer
        /\ TheOffer.contents.chains # offer.chains =>
              offer.chains = Some(<< Mainnet >>) /\ TheOffer.contents.chains = None
        /\ Offer_metadata(TheOffer) = offer.metadata
        /\ Offer_amount(TheOffer) = offer.amount
        /\ Offer_description(TheOffer) = offer.description
        /\ Offer_features(TheOffer) = offer.features
        /\ Offer_absolute_expiry(TheOffer) = offer.absolute_expiry
        /\ Offer_issuer(TheOffer) = offer.issuer
        /\ Offer_paths(TheOffer) = IF IsSome(offer.paths) THEN Unwrap(offer.paths) ELSE <<>>
        /\ Offer_supported_quantity(TheOffer) = offer.supported_quantity
        /\ Offer_signing_pubkey(TheOffer) = Unwrap(offer.signing_pubkey)

C18_Witness ==
    /\ Built
    /\ offer.chains = Some(<< Mainnet >>)
    /\ TheOffer.contents.chains = None
    /\ IsSome(offer.paths) /\ Offer_paths(TheOffer) = Unwrap(offer.paths)
    /\ IsSome(offer.issuer) /\ Offer_issuer(TheOffer) = offer.issuer

\* a stored list is absent or has at least one element
AbsentOrNonEmpty(list) == IsNone(list) \/ Len(Unwrap(list)) >= 1
NoDuplicates(seq) == \A i, j \in 1..Len(seq) : i # j => seq[i] # seq[j]
NoEmptyListRecord(wire) ==
    \A i \in 1..Len(wire) : wire[i].type \in { 2, 16 } => wire[i].length > 0

\* C19: in every builder state and every finalized Offer the stored chains and
\* paths are each None or non-empty and a present chains list has no
\* duplicates; chains() never returns an empty list and an emitted chains or
\* paths record never has an empty value.
C19_ListsNonEmpty ==
    /\ AbsentOrNonEmpty(offer.chains)
    /\ AbsentOrNonEmpty(offer.paths)
    /\ IsSome(offer.chains) => NoDuplicates(Unwrap(offer.chains))
    /\ Built =>
          /\ AbsentOrNonEmpty(TheOffer.contents.chains)
          /\ AbsentOrNonEmpty(TheOffer.contents.paths)
          /\ IsSome(TheOffer.contents.chains) => NoDuplicates(Unwrap(TheOffer.contents.chains))
          /\ Len(Offer_chains(TheOffer)) >= 1
          /\ NoEmptyListRecord(TheOffer.bytes)

C19_Witness ==
    /\ Built
    /\ ArgsOf("chain") = << "Testnet", "Testnet" >>
    /\ Len(ArgsOf("path")) = 1
    /\ TheOffer.contents.chains = Some(<< Testnet >>)
    /\ Len(Unwrap(TheOffer.contents.paths)) = 1

\* one logged setter call applied to staged contents
Apply(self, c) ==
    CASE c.op = "chain" -> chain(self, c.arg)
      [] c.op = "metadata" -> metadata(self, c.arg)
      [] c.op = "amount" -> amount(self, c.arg)
      [] c.op = "features" -> features(self, c.arg)
      [] c.op = "absolute_expiry" -> absolute_expiry(self, c.arg)
      [] c.op = "issuer" -> issuer(self, c.arg)
      [] c.op = "path" -> path(self, c.arg)
      [] c.op = "supported_quantity" -> supported_quantity(self, c.arg)

\* the staged contents after the first n calls of a log
RECURSIVE Replay(_, _)
Replay(log, n) ==
    IF n = 1 THEN new(log[1].arg[1], log[1].arg[2])
    ELSE Apply(Replay(log, n - 1), log[n])

\* a log with its last two calls exchanged
LastTwoExchanged(log) ==
    [ log EXCEPT ![Len(log) - 1] = log[Len(log)], ![Len(log)] = log[Len(log) - 1] ]

\* what build() returns for staged contents
Outcome(self) ==
    [ result |-> validate_amount(self),
      offer |-> IF validate_amount(self) = "ok" THEN Some(finalize(self)) ELSE None ]

\* C20: setters of different fields commute: from any builder state, two
\* setter calls that target different fields give, in either order, the same
\* staged contents and the same build() outcome (the same failure, or Offers
\* with equal contents and identical bytes).
C20_SettersCommute ==
    (Len(calls) >= 3
        /\ FieldOf(calls[Len(calls) - 1].op) # FieldOf(calls[Len(calls)].op)) =>
        LET before == Replay(calls, Len(calls) - 2)
            first == calls[Len(calls) - 1]
            second == calls[Len(calls)]
            exchanged == Apply(Apply(before, second), first)
            outcome == Outcome(exchanged)
        IN  /\ offer = Apply(Apply(before, first), second)
            /\ exchanged = offer
            /\ phase # "building" =>
                  /\ built = outcome.offer
                  /\ phase = CASE outcome.result = "ok" -> "built"
                               [] outcome.result = "err" -> "failed"
                               [] OTHER -> "panicked"

C20_Witness ==
    /\ Built
    /\ Len(calls) = 4
    /\ calls[2].op = "chain" /\ calls[3].op = "amount" /\ calls[4].op = "chain"
    /\ calls[2].arg # calls[4].arg
    /\ TheOffer = finalize(Replay(LastTwoExchanged(calls), 4))

====
